---- MODULE Spec2Model ----
\* Model of shuffle_script.py: a command-line script that parses N from its first
\* argument, builds [1..N], shuffles it with random.shuffle and prints it as one
\* space-separated line.
EXTENDS Integers, Sequences, FiniteSets, TLC

\* ---------------------------------------------------------------- bounds

\* Largest N an argument may denote (the shuffle of 1..N branches N! ways).
MaxN == 3

\* Longest command-line argument, in characters.
MaxArgLen == 3

\* How many times the user starts the program with the same command line.
MaxRuns == 2

\* ---------------------------------------------------------------- text

\* The decimal digits, in order: DigitSeq[d + 1] is the character of digit d.
DigitSeq == <<"0", "1", "2", "3", "4", "5", "6", "7", "8", "9">>

IsDigit(c) == \E k \in 1..Len(DigitSeq) : DigitSeq[k] = c

DigitVal(c) == (CHOOSE k \in 1..Len(DigitSeq) : DigitSeq[k] = c) - 1

IsSpace(c) == c = " "

\* The characters an argument is made of: the digits up to MaxN, both signs,
\* white space, the digit separator int() accepts, and a letter.
ArgChars ==
    {DigitSeq[k] : k \in 1..(IF MaxN < 9 THEN MaxN + 1 ELSE Len(DigitSeq))}
        \cup {"+", "-", " ", "_", "a"}

RECURSIVE LStrip(_)
LStrip(s) == IF s # <<>> /\ IsSpace(Head(s)) THEN LStrip(Tail(s)) ELSE s

RECURSIVE RStrip(_)
RStrip(s) ==
    IF s # <<>> /\ IsSpace(s[Len(s)]) THEN RStrip(SubSeq(s, 1, Len(s) - 1)) ELSE s

Strip(s) == RStrip(LStrip(s))

\* int(): the literal's sign, and the literal without it.
SignOf(s) == IF s # <<>> /\ s[1] = "-" THEN -1 ELSE 1

Unsigned(s) == IF s # <<>> /\ s[1] \in {"+", "-"} THEN Tail(s) ELSE s

\* int(): a digit string is digits with single underscores between digits.
ValidDigits(d) ==
    /\ d # <<>>
    /\ \A k \in 1..Len(d) :
        \/ IsDigit(d[k])
        \/ /\ d[k] = "_"
           /\ k > 1
           /\ k < Len(d)
           /\ IsDigit(d[k - 1])
           /\ IsDigit(d[k + 1])

RECURSIVE DigitsValue(_, _)
DigitsValue(d, acc) ==
    IF d = <<>> THEN acc
    ELSE IF Head(d) = "_" THEN DigitsValue(Tail(d), acc)
    ELSE DigitsValue(Tail(d), acc * 10 + DigitVal(Head(d)))

\* A lenient parse: text that is no integer counts as 0 instead of raising.
IntOfLenient(s) ==
    LET t == Strip(s)
        ok == ValidDigits(Unsigned(t))
    IN  [ok |-> TRUE, val |-> IF ok THEN SignOf(t) * DigitsValue(Unsigned(t), 0) ELSE 0]

\* int(s) on a str: ok is FALSE where int() raises ValueError.
IntOf(s) ==
    LET t == Strip(s)
        ok == ValidDigits(Unsigned(t))
    IN  [ok |-> ok, val |-> IF ok THEN SignOf(t) * DigitsValue(Unsigned(t), 0) ELSE 0]

\* str(i) on an int.
RECURSIVE StrNat(_)
StrNat(k) ==
    IF k < 10 THEN <<DigitSeq[k + 1]>>
    ELSE StrNat(k \div 10) \o <<DigitSeq[(k % 10) + 1]>>

Str(i) == IF i < 0 THEN <<"-">> \o StrNat(-i) ELSE StrNat(i)

\* map(str, xs)
MapStr(xs) == [k \in 1..Len(xs) |-> Str(xs[k])]

\* A join that writes the separator after every element, the last included.
RECURSIVE JoinTrailing(_, _)
JoinTrailing(sep, xs) ==
    IF xs = <<>> THEN <<>> ELSE xs[1] \o sep \o JoinTrailing(sep, Tail(xs))

\* sep.join(xs)
RECURSIVE Join(_, _)
Join(sep, xs) ==
    IF xs = <<>> THEN <<>>
    ELSE IF Len(xs) = 1 THEN xs[1]
    ELSE xs[1] \o sep \o Join(sep, Tail(xs))

\* What print(' '.join(map(str, xs))) writes: the joined text and the line end.
PrintedLine(xs) == Join(<<" ">>, MapStr(xs)) \o <<"\n">>

\* ---------------------------------------------------------------- lists

\* A range that includes its upper end.
RangeInclusive(a, b) == IF b >= a THEN [k \in 1..(b - a + 1) |-> a + k - 1] ELSE <<>>

\* A range that stops one element early.
RangeShort(a, b) == IF b - 1 > a THEN [k \in 1..(b - 1 - a) |-> a + k - 1] ELSE <<>>

\* list(range(a, b))
Range(a, b) == IF b > a THEN [k \in 1..(b - a) |-> a + k - 1] ELSE <<>>

\* An exchange that only copies x[j] into x[i].
SwapOverwrite(x, i, j) == [x EXCEPT ![i + 1] = x[j + 1]]

\* x[i], x[j] = x[j], x[i], with Python's indices (from 0).
Swap(x, i, j) == [x EXCEPT ![i + 1] = x[j + 1], ![j + 1] = x[i + 1]]

\* random's _randbelow(k): any integer of 0..k-1.
RandBelow(k) == 0..(k - 1)

\* Sattolo's draw: j = randbelow(i), never i itself.
ShuffleDrawSattolo(i) == 0..(i - 1)

\* The indices random.shuffle draws for at position i: j = randbelow(i + 1).
ShuffleDraw(i) == RandBelow(i + 1)

\* random.shuffle(x), from position i down to 1: every run of the loop, as the
\* draws it made and the list it left.
RECURSIVE ShuffleFrom(_, _)
ShuffleFrom(x, i) ==
    IF i < 1 THEN {[draws |-> <<>>, out |-> x]}
    ELSE UNION {
        {[draws |-> <<j>> \o r.draws, out |-> r.out] :
            r \in ShuffleFrom(Swap(x, i, j), i - 1)} :
        j \in ShuffleDraw(i)}

\* A shuffle of a copy: the draws are made, the list itself is left as it was.
ShuffleRunsOnCopy(x) == {[draws |-> r.draws, out |-> x] : r \in ShuffleFrom(x, Len(x) - 1)}

\* random.shuffle(x): for i in reversed(range(1, len(x))).
ShuffleRuns(x) == ShuffleFrom(x, Len(x) - 1)

ShuffleOutcomes(x) == {r.out : r \in ShuffleRuns(x)}

\* ---------------------------------------------------------------- state

VARIABLES
    argv,       \* sys.argv[1:]: no argument, or one argument (its characters)
    pc,         \* the statement the run is at
    n,          \* n of __main__: unbound (held as 0) until the parse binds it
    messages,   \* messages of generate_mixed_messages
    result,     \* result of __main__
    draws,      \* the random draws the shuffle of this run made
    stdout,     \* the characters this run wrote to standard output
    stderr,     \* the exception this run reported on standard error
    exitcode,   \* <<>> while the process runs, <<code>> once it has exited
    trace,      \* the statements this run has executed, in order
    run,        \* which run of the command line this is
    prev        \* what the previous run of the command line wrote to stdout

vars ==
    <<argv, pc, n, messages, result, draws, stdout, stderr, exitcode, trace, run, prev>>

Strings == UNION {[1..k -> ArgChars] : k \in 0..MaxArgLen}

\* The arguments tried: every string that is no integer or an integer <= MaxN.
Args == {s \in Strings : ~IntOf(s).ok \/ IntOf(s).val <= MaxN}

\* len(sys.argv) > 1
HasArg(a) == Len(a) > 0

\* A process at its start: nothing bound, nothing written.
Init ==
    /\ argv \in {<<>>} \cup {<<s>> : s \in Args}
    /\ pc = "start"
    /\ n = 0
    /\ messages = <<>>
    /\ result = <<>>
    /\ draws = <<>>
    /\ stdout = <<>>
    /\ stderr = <<>>
    /\ exitcode = <<>>
    /\ trace = <<>>
    /\ run = 1
    /\ prev = <<>>

\* The print dedented out of the if: without an argument the script prints too.
StartPrintDedented ==
    /\ pc = "start"
    /\ pc' = IF HasArg(argv) THEN "parse" ELSE "print"
    /\ trace' = Append(trace, "start")
    /\ UNCHANGED <<argv, n, messages, result, draws, stdout, stderr, exitcode, run, prev>>

\* if len(sys.argv) > 1: without an argument the script falls off its end.
Start ==
    /\ pc = "start"
    /\ pc' = IF HasArg(argv) THEN "parse" ELSE "end"
    /\ trace' = Append(trace, "start")
    /\ UNCHANGED <<argv, n, messages, result, draws, stdout, stderr, exitcode, run, prev>>

\* A parse followed by a check that rejects a negative n with ValueError.
ParseOkPositiveOnly ==
    /\ pc = "parse"
    /\ IntOf(argv[1]).ok
    /\ n' = IntOf(argv[1]).val
    /\ pc' = IF n' < 0 THEN "error" ELSE "build"
    /\ stderr' = IF n' < 0 THEN <<"ValueError">> ELSE stderr
    /\ exitcode' = IF n' < 0 THEN <<1>> ELSE exitcode
    /\ trace' = Append(trace, "parse")
    /\ UNCHANGED <<argv, messages, result, draws, stdout, run, prev>>

\* n = int(sys.argv[1]), the literal being an integer.
ParseOk ==
    /\ pc = "parse"
    /\ IntOf(argv[1]).ok
    /\ n' = IntOf(argv[1]).val
    /\ pc' = "build"
    /\ trace' = Append(trace, "parse")
    /\ UNCHANGED <<argv, messages, result, draws, stdout, stderr, exitcode, run, prev>>

\* n = int(sys.argv[1]) raising ValueError: the interpreter reports the uncaught
\* exception on standard error and exits with status 1.
ParseError ==
    /\ pc = "parse"
    /\ ~IntOf(argv[1]).ok
    /\ stderr' = <<"ValueError">>
    /\ exitcode' = <<1>>
    /\ pc' = "error"
    /\ trace' = Append(trace, "parse")
    /\ UNCHANGED <<argv, n, messages, result, draws, stdout, run, prev>>

\* messages = [i for i in range(1, n + 1)]
Build ==
    /\ pc = "build"
    /\ messages' = Range(1, n + 1)
    /\ pc' = "shuffle"
    /\ trace' = Append(trace, "build")
    /\ UNCHANGED <<argv, n, result, draws, stdout, stderr, exitcode, run, prev>>

\* random.shuffle(messages)
Shuffle ==
    /\ pc = "shuffle"
    /\ \E r \in ShuffleRuns(messages) :
        /\ messages' = r.out
        /\ draws' = r.draws
    /\ pc' = "return"
    /\ trace' = Append(trace, "shuffle")
    /\ UNCHANGED <<argv, n, result, stdout, stderr, exitcode, run, prev>>

\* return messages; result = generate_mixed_messages(n)
Return ==
    /\ pc = "return"
    /\ result' = messages
    /\ pc' = "print"
    /\ trace' = Append(trace, "return")
    /\ UNCHANGED <<argv, n, messages, draws, stdout, stderr, exitcode, run, prev>>

\* print(' '.join(result)): join raises TypeError on the first int it meets.
PrintResultNoMap ==
    /\ pc = "print"
    /\ stdout' = IF result = <<>> THEN stdout \o <<"\n">> ELSE stdout
    /\ stderr' = IF result = <<>> THEN stderr ELSE <<"TypeError">>
    /\ exitcode' = IF result = <<>> THEN exitcode ELSE <<1>>
    /\ pc' = IF result = <<>> THEN "end" ELSE "error"
    /\ trace' = Append(trace, "print")
    /\ UNCHANGED <<argv, n, messages, result, draws, run, prev>>

\* print(' '.join(map(str, result)))
PrintResult ==
    /\ pc = "print"
    /\ stdout' = stdout \o PrintedLine(result)
    /\ pc' = "end"
    /\ trace' = Append(trace, "print")
    /\ UNCHANGED <<argv, n, messages, result, draws, stderr, exitcode, run, prev>>

\* The end of the script: the interpreter exits with status 0.
Exit ==
    /\ pc = "end"
    /\ exitcode' = <<0>>
    /\ pc' = "done"
    /\ trace' = Append(trace, "end")
    /\ UNCHANGED <<argv, n, messages, result, draws, stdout, stderr, run, prev>>

\* The user starts the program again with the same command line.
Rerun ==
    /\ pc \in {"done", "error"}
    /\ run < MaxRuns
    /\ run' = run + 1
    /\ prev' = stdout
    /\ pc' = "start"
    /\ n' = 0
    /\ messages' = <<>>
    /\ result' = <<>>
    /\ draws' = <<>>
    /\ stdout' = <<>>
    /\ stderr' = <<>>
    /\ exitcode' = <<>>
    /\ trace' = <<>>
    /\ UNCHANGED argv

\* One statement of the running program.
ProgramStep ==
    \/ Start
    \/ ParseOk
    \/ ParseError
    \/ Build
    \/ Shuffle
    \/ Return
    \/ PrintResult
    \/ Exit

Next ==
    \/ ProgramStep
    \/ Rerun

Spec == Init /\ [][Next]_vars

\* ---------------------------------------------------------------- properties

\* The parse has bound n: the run is past n = int(sys.argv[1]) without an error.
Parsed == HasArg(argv) /\ pc \in {"build", "shuffle", "return", "print", "end", "done"}

\* The statements of a whole run with an argument that is an integer.
FullTrace == <<"start", "parse", "build", "shuffle", "return", "print", "end">>

IsPrefix(s, t) == Len(s) <= Len(t) /\ SubSeq(t, 1, Len(s)) = s

\* How often c occurs in s.
Count(s, c) == Cardinality({k \in DOMAIN s : s[k] = c})

\* xs has exactly k elements and each integer of 1..k once.
IsPermutation(xs, k) ==
    /\ Len(xs) = k
    /\ \A i \in DOMAIN xs : xs[i] \in 1..k
    /\ \A v \in 1..k : Count(xs, v) = 1

\* All orderings of 1..k, defined without the shuffle.
Perms(k) == {f \in [1..k -> 1..k] : \A a, b \in 1..k : f[a] = f[b] => a = b}

RECURSIVE Factorial(_)
Factorial(k) == IF k <= 1 THEN 1 ELSE k * Factorial(k - 1)

\* The white-space separated words of a text.
RECURSIVE WordsFrom(_, _, _)
WordsFrom(s, cur, acc) ==
    LET flushed == IF cur = <<>> THEN acc ELSE Append(acc, cur)
    IN  IF s = <<>> THEN flushed
        ELSE IF Head(s) \in {" ", "\n"} THEN WordsFrom(Tail(s), <<>>, flushed)
        ELSE WordsFrom(Tail(s), Append(cur, Head(s)), acc)

Words(s) == WordsFrom(s, <<>>, <<>>)

\* A word that is an unsigned decimal numeral, and its value.
IsNumeral(w) == w # <<>> /\ \A k \in DOMAIN w : IsDigit(w[k])

RECURSIVE NumeralValue(_)
NumeralValue(w) ==
    IF w = <<>> THEN 0
    ELSE 10 * NumeralValue(SubSeq(w, 1, Len(w) - 1)) + DigitVal(w[Len(w)])

\* The printed text read back as integers.
ParsedBack(out) == [k \in DOMAIN Words(out) |-> NumeralValue(Words(out)[k])]

AllNumerals(out) == \A k \in DOMAIN Words(out) : IsNumeral(Words(out)[k])

\* C1: for every N >= 0 the list generate_mixed_messages(N) returns, and the line
\* the program prints read back as integers, has exactly N elements and holds
\* every integer of 1..N exactly once, whatever the shuffle drew.
C1_Permutation ==
    (Parsed /\ n >= 0) =>
        /\ pc \in {"return", "print", "end", "done"} => IsPermutation(messages, n)
        /\ pc \in {"print", "end", "done"} => IsPermutation(result, n)
        /\ pc \in {"end", "done"} =>
            /\ AllNumerals(stdout)
            /\ Len(Words(stdout)) = n
            /\ IsPermutation(ParsedBack(stdout), n)

\* A finished run that printed a shuffled (not the ascending) ordering of 1..N.
C1_Witness ==
    /\ pc = "done"
    /\ n >= 2
    /\ result # Range(1, n + 1)
    /\ IsPermutation(ParsedBack(stdout), n)

\* C2: started without an argument, the program never builds or shuffles a
\* sequence, writes nothing to standard output, reports no error, and its only
\* way on is to the exit with code 0.
C2_NoArgument ==
    ~HasArg(argv) =>
        /\ stdout = <<>>
        /\ stderr = <<>>
        /\ draws = <<>>
        /\ pc \in {"start", "end", "done"}
        /\ IsPrefix(trace, <<"start", "end">>)
        /\ exitcode = IF pc = "done" THEN <<0>> ELSE <<>>
        /\ pc # "done" => ENABLED ProgramStep

\* A run without an argument that has exited with code 0 and no output.
C2_Witness ==
    /\ argv = <<>>
    /\ pc = "done"
    /\ exitcode = <<0>>
    /\ stdout = <<>>
    /\ trace = <<"start", "end">>

\* The argument holds a letter, or no digit at all: text that is no integer.
NoIntegerText(s) ==
    \/ \E k \in DOMAIN s : s[k] \notin {"+", "-", " ", "_"} /\ ~IsDigit(s[k])
    \/ \A k \in DOMAIN s : ~IsDigit(s[k])

\* C3: when the first argument is no integer, the run ends in the error state
\* with a non-zero exit status, and nothing (no permutation, no empty line) has
\* been written to standard output when the error is raised or after it.
C3_ParseError ==
    /\ (HasArg(argv) /\ (NoIntegerText(argv[1]) \/ ~IntOf(argv[1]).ok)) =>
        /\ pc \in {"start", "parse", "error"}
        /\ stdout = <<>>
        /\ exitcode # <<0>>
        /\ pc = "parse" => ENABLED ParseError /\ ~ENABLED ParseOk
    /\ pc = "error" =>
        /\ exitcode = <<1>>
        /\ stderr = <<"ValueError">>
        /\ stdout = <<>>
        /\ trace = <<"start", "parse">>
        /\ ~ENABLED ProgramStep

\* A run on the argument "a" that ended in the error state with exit status 1.
C3_Witness ==
    /\ argv = << <<"a">> >>
    /\ pc = "error"
    /\ exitcode = <<1>>
    /\ stdout = <<>>

\* C4: for every N >= 1 the program writes exactly one line: the N elements of
\* the permuted sequence in sequence order, one space between adjacent elements
\* (N - 1 spaces, none leading or trailing), then exactly one newline; nothing
\* is written before the print statement and nothing after it.
C4_OneLine ==
    (Parsed /\ n >= 1) =>
        IF pc \in {"end", "done"}
        THEN /\ Count(stdout, "\n") = 1
             /\ stdout[Len(stdout)] = "\n"
             /\ Count(stdout, " ") = n - 1
             /\ stdout[1] # " "
             /\ stdout[Len(stdout) - 1] # " "
             /\ \A k \in 1..(Len(stdout) - 1) : ~(stdout[k] = " " /\ stdout[k + 1] = " ")
             /\ AllNumerals(stdout)
             /\ ParsedBack(stdout) = result
        ELSE stdout = <<>>

\* A finished run with N >= 2 whose line holds a separator.
C4_Witness ==
    /\ pc = "done"
    /\ n >= 2
    /\ Count(stdout, " ") = n - 1
    /\ ParsedBack(stdout) = result

\* The argument is a numeral made of zeros only: N = 0.
IsZeroText(s) == s # <<>> /\ \A k \in DOMAIN s : s[k] = "0"

\* C5: for N = 0 the sequence is empty and the program still runs the print:
\* the output is one empty line (just the newline) and the exit code is 0.
C5_Zero ==
    /\ (Parsed /\ n = 0) =>
        /\ pc \in {"shuffle", "return", "print", "end", "done"} => messages = <<>>
        /\ pc \in {"print", "end", "done"} => result = <<>>
        /\ pc \in {"end", "done"} => stdout = <<"\n">>
        /\ pc = "done" => exitcode = <<0>> /\ trace = FullTrace
        /\ pc # "done" => ENABLED ProgramStep
    /\ (HasArg(argv) /\ IsZeroText(argv[1])) =>
        /\ pc # "error"
        /\ Parsed => n = 0

\* A finished run on the argument "0" that printed the empty line.
C5_Witness ==
    /\ argv = << <<"0">> >>
    /\ pc = "done"
    /\ n = 0
    /\ stdout = <<"\n">>
    /\ exitcode = <<0>>

\* C6: for N = 1 the shuffle leaves the one-element sequence as it is and draws
\* nothing, so the output is the line "1" in every run, with no separator.
C6_One ==
    (Parsed /\ n = 1) =>
        /\ pc \in {"shuffle", "return", "print", "end", "done"} => messages = <<1>>
        /\ pc = "shuffle" => ShuffleOutcomes(messages) = {<<1>>}
        /\ pc \in {"return", "print", "end", "done"} => draws = <<>>
        /\ pc \in {"print", "end", "done"} => result = <<1>>
        /\ pc \in {"end", "done"} => stdout = <<"1", "\n">>
        /\ run > 1 => prev = <<"1", "\n">>

\* A second finished run on the argument "1": both runs wrote the line "1".
C6_Witness ==
    /\ argv = << <<"1">> >>
    /\ run = 2
    /\ pc = "done"
    /\ stdout = <<"1", "\n">>
    /\ prev = stdout

PossibleLines == {PrintedLine(r.out) : r \in ShuffleRuns(messages)}

\* out is the printed line of some ordering of 1..k.
IsPermutationLine(out, k) ==
    /\ AllNumerals(out)
    /\ IsPermutation(ParsedBack(out), k)

\* C8: two runs with the same N each print a permutation of 1..N, and the
\* output is no function of N alone: for N >= 2 a run can print more than one
\* line.
C8_TwoRuns ==
    (Parsed /\ n >= 0) =>
        /\ (run > 1 /\ pc \in {"end", "done"}) =>
            /\ IsPermutationLine(prev, n)
            /\ IsPermutationLine(stdout, n)
        /\ (pc = "shuffle" /\ n >= 2) => Cardinality(PossibleLines) >= 2

\* Two finished runs of the same command line whose printed lines differ.
C8_Witness ==
    /\ run = 2
    /\ pc = "done"
    /\ n >= 2
    /\ prev # stdout
    /\ IsPermutationLine(prev, n)
    /\ IsPermutationLine(stdout, n)

\* C9: a run whose argument is an integer cannot fail: it goes parse, build,
\* shuffle, print in that order, prints exactly once and exits with code 0;
\* the only error state a run reaches is the parse error.
C9_NoOtherFailure ==
    /\ (HasArg(argv) /\ IsNumeral(argv[1])) => pc # "error"
    /\ pc = "error" =>
        /\ trace = <<"start", "parse">>
        /\ stderr = <<"ValueError">>
        /\ ~IntOf(argv[1]).ok
    /\ Parsed =>
        /\ IsPrefix(trace, FullTrace)
        /\ stderr = <<>>
        /\ Count(trace, "print") = Count(stdout, "\n")
        /\ Count(trace, "print") = IF pc \in {"end", "done"} THEN 1 ELSE 0
        /\ exitcode = IF pc = "done" THEN <<0>> ELSE <<>>
        /\ pc = "done" => trace = FullTrace
        /\ pc # "done" => ENABLED ProgramStep

\* A finished run on a numeral: the whole trace, one print, exit code 0.
C9_Witness ==
    /\ HasArg(argv)
    /\ IsNumeral(argv[1])
    /\ pc = "done"
    /\ trace = FullTrace
    /\ Count(stdout, "\n") = 1
    /\ exitcode = <<0>>

\* The argument is a minus sign and a numeral that is not zero.
IsNegativeText(s) ==
    /\ Len(s) >= 2
    /\ s[1] = "-"
    /\ IsNumeral(Tail(s))
    /\ \E k \in DOMAIN Tail(s) : Tail(s)[k] # "0"

\* C10: a negative integer argument is not rejected: the program treats it as
\* N = 0, building the empty sequence, printing an empty line and exiting with
\* code 0.
C10_Negative ==
    /\ (HasArg(argv) /\ IsNegativeText(argv[1])) =>
        /\ pc # "error"
        /\ Parsed => n < 0
    /\ (Parsed /\ n < 0) =>
        /\ pc \in {"shuffle", "return", "print", "end", "done"} => messages = <<>>
        /\ pc \in {"print", "end", "done"} => result = <<>>
        /\ stdout = IF pc \in {"end", "done"} THEN <<"\n">> ELSE <<>>
        /\ pc = "done" => exitcode = <<0>> /\ trace = FullTrace
        /\ pc # "done" => ENABLED ProgramStep

\* A finished run on the argument "-1": the empty line, exit code 0.
C10_Witness ==
    /\ argv = << <<"-", "1">> >>
    /\ pc = "done"
    /\ n = -1
    /\ stdout = <<"\n">>
    /\ exitcode = <<0>>

====
